---- MODULE Spec2Model ----
(***************************************************************************)
(* Model of the date-add-days API: the timestamp engine (normalizeNanos,   *)
(* parseInputToEpoch, parseDays, handleAddDays, epochToOutputs) and the    *)
(* quoted-list tokenizer (parseStringList).                                *)
(*                                                                         *)
(* JavaScript BigInt values are unbounded, so they are modelled as         *)
(* sign-and-magnitude numbers whose magnitude is a little-endian sequence  *)
(* of limbs in base 1000 (Big); every arithmetic step of the source is     *)
(* carried out exactly on that representation.  JavaScript strings are     *)
(* TLA+ strings, read character by character with SubSeq.                  *)
(***************************************************************************)
EXTENDS Integers, Sequences, FiniteSets, TLC

\* op:    the function being called
\* pc:    "call" while the call is pending, "done" once it has returned
\* arg:   what it is called with
\* res:   what it returned, or the exception it threw (undefined while pending)
\* chain: for a run of day additions on one Instant, the Instant it started
\*        from, the days added so far and the number of additions
VARIABLES op, pc, arg, res, chain, host

vars == <<op, pc, arg, res, chain, host>>

----------------------------------------------------------------------------
(* Unbounded integers (the BigInt primitive).                              *)

\* three decimal digits per limb
Base == 10 * 10 * 10

Lo(a, b) == IF a < b THEN a ELSE b

RECURSIVE MagTrim(_)
MagTrim(m) ==
    IF m = <<>> THEN <<>>
    ELSE IF m[Len(m)] = 0 THEN MagTrim(SubSeq(m, 1, Len(m) - 1))
    ELSE m

MkBig(neg, m) ==
    LET t == MagTrim(m) IN [neg |-> (neg /\ t # <<>>), mag |-> t]

RECURSIVE MagOfNat(_)
MagOfNat(k) == IF k = 0 THEN <<>> ELSE <<k % Base>> \o MagOfNat(k \div Base)

\* a small integer (|k| < 2^31) as a Big
BigOf(k) == IF k < 0 THEN MkBig(TRUE, MagOfNat(-k)) ELSE MkBig(FALSE, MagOfNat(k))

BigZero == BigOf(0)

Limb(m, i) == IF i <= Len(m) THEN m[i] ELSE 0

\* -1, 0, 1 as magnitude a is below, equal to, above magnitude b (both trimmed)
RECURSIVE MagCmpFrom(_, _, _)
MagCmpFrom(a, b, i) ==
    IF i = 0 THEN 0
    ELSE IF a[i] < b[i] THEN -1
    ELSE IF a[i] > b[i] THEN 1
    ELSE MagCmpFrom(a, b, i - 1)

MagCmp(a, b) ==
    IF Len(a) < Len(b) THEN -1
    ELSE IF Len(a) > Len(b) THEN 1
    ELSE MagCmpFrom(a, b, Len(a))

RECURSIVE MagAddFrom(_, _, _, _)
MagAddFrom(a, b, i, carry) ==
    IF i > Len(a) /\ i > Len(b)
    THEN (IF carry = 0 THEN <<>> ELSE <<carry>>)
    ELSE LET t == Limb(a, i) + Limb(b, i) + carry
         IN  <<t % Base>> \o MagAddFrom(a, b, i + 1, t \div Base)

MagAdd(a, b) == MagAddFrom(a, b, 1, 0)

\* a - b for magnitudes with a >= b
RECURSIVE MagSubFrom(_, _, _, _)
MagSubFrom(a, b, i, borrow) ==
    IF i > Len(a) THEN <<>>
    ELSE LET t == Limb(a, i) - Limb(b, i) - borrow
         IN  IF t < 0 THEN <<t + Base>> \o MagSubFrom(a, b, i + 1, 1)
             ELSE <<t>> \o MagSubFrom(a, b, i + 1, 0)

MagSub(a, b) == MagTrim(MagSubFrom(a, b, 1, 0))

\* magnitude times a limb-sized factor k (0 <= k < Base)
RECURSIVE MagMulLimbFrom(_, _, _, _)
MagMulLimbFrom(a, k, i, carry) ==
    IF i > Len(a) THEN (IF carry = 0 THEN <<>> ELSE <<carry>>)
    ELSE LET t == a[i] * k + carry
         IN  <<t % Base>> \o MagMulLimbFrom(a, k, i + 1, t \div Base)

MagMulLimb(a, k) == MagTrim(MagMulLimbFrom(a, k, 1, 0))

RECURSIVE MagMulFrom(_, _, _)
MagMulFrom(a, b, i) ==
    IF i > Len(b) THEN <<>>
    ELSE MagAdd(MagMulLimb(a, b[i]), <<0>> \o MagMulFrom(a, b, i + 1))

MagMul(a, b) == MagTrim(MagMulFrom(a, b, 1))

\* the largest q in lo..hi with b*q <= r (long division's quotient digit)
RECURSIVE QuotDigit(_, _, _, _)
QuotDigit(r, b, lo, hi) ==
    IF lo = hi THEN lo
    ELSE LET mid == (lo + hi + 1) \div 2
         IN  IF MagCmp(MagMulLimb(b, mid), r) <= 0
             THEN QuotDigit(r, b, mid, hi)
             ELSE QuotDigit(r, b, lo, mid - 1)

\* long division of magnitudes, b # 0: <<quotient, remainder>>
RECURSIVE MagDivModFrom(_, _, _, _)
MagDivModFrom(a, b, i, r) ==
    IF i = 0 THEN <<<<>>, r>>
    ELSE LET r1   == MagTrim(<<a[i]>> \o r)
             q    == QuotDigit(r1, b, 0, Base - 1)
             r2   == MagSub(r1, MagMulLimb(b, q))
             rest == MagDivModFrom(a, b, i - 1, r2)
         IN  <<rest[1] \o <<q>>, rest[2]>>

MagDivMod(a, b) ==
    LET dm == MagDivModFrom(a, b, Len(a), <<>>)
    IN  <<MagTrim(dm[1]), dm[2]>>

BigNeg(a) == MkBig(~a.neg, a.mag)

BigAdd(a, b) ==
    IF a.neg = b.neg THEN MkBig(a.neg, MagAdd(a.mag, b.mag))
    ELSE IF MagCmp(a.mag, b.mag) >= 0 THEN MkBig(a.neg, MagSub(a.mag, b.mag))
    ELSE MkBig(b.neg, MagSub(b.mag, a.mag))

BigSub(a, b) == BigAdd(a, BigNeg(b))

BigMul(a, b) == MkBig(a.neg # b.neg, MagMul(a.mag, b.mag))

\* BigInt "/" and "%": the quotient truncates toward zero and the remainder
\* takes the sign of the dividend
BigDiv(a, b) == MkBig(a.neg # b.neg, MagDivMod(a.mag, b.mag)[1])

BigRem(a, b) == MkBig(a.neg, MagDivMod(a.mag, b.mag)[2])

BigCmp(a, b) ==
    IF a.neg /\ ~b.neg THEN -1
    ELSE IF ~a.neg /\ b.neg THEN 1
    ELSE IF a.neg THEN MagCmp(b.mag, a.mag)
    ELSE MagCmp(a.mag, b.mag)

BigLt(a, b) == BigCmp(a, b) < 0

BigGe(a, b) == BigCmp(a, b) >= 0

\* as BigFloorDiv, but the quotient is truncated toward zero
BigFloorDiv_Truncated(a, b) == BigDiv(a, b)

\* floor division and the matching non-negative remainder, for b > 0
BigFloorDiv(a, b) ==
    LET q == BigDiv(a, b)
    IN  IF a.neg /\ BigRem(a, b) # BigZero THEN BigSub(q, BigOf(1)) ELSE q

BigFloorMod(a, b) == BigSub(a, BigMul(BigFloorDiv(a, b), b))

\* a Big known to fit a machine integer, as that integer
RECURSIVE MagToNat(_)
MagToNat(m) == IF m = <<>> THEN 0 ELSE m[1] + Base * MagToNat(Tail(m))

BigToInt(a) == IF a.neg THEN -MagToNat(a.mag) ELSE MagToNat(a.mag)

----------------------------------------------------------------------------
(* Decimal text of a BigInt: BigInt(string) and BigInt.prototype.toString. *)

Digits == {"0", "1", "2", "3", "4", "5", "6", "7", "8", "9"}

DigitVal(c) ==
    CASE c = "0" -> 0 [] c = "1" -> 1 [] c = "2" -> 2 [] c = "3" -> 3
      [] c = "4" -> 4 [] c = "5" -> 5 [] c = "6" -> 6 [] c = "7" -> 7
      [] c = "8" -> 8 [] c = "9" -> 9

DigitChar(d) ==
    CASE d = 0 -> "0" [] d = 1 -> "1" [] d = 2 -> "2" [] d = 3 -> "3"
      [] d = 4 -> "4" [] d = 5 -> "5" [] d = 6 -> "6" [] d = 7 -> "7"
      [] d = 8 -> "8" [] d = 9 -> "9"

At(s, i) == SubSeq(s, i, i)

RECURSIVE AllDigits(_)
AllDigits(s) == s = "" \/ (At(s, 1) \in Digits /\ AllDigits(Tail(s)))

\* the value of at most three decimal digits
RECURSIVE SmallOfDigits(_)
SmallOfDigits(s) ==
    IF s = "" THEN 0
    ELSE 10 * SmallOfDigits(SubSeq(s, 1, Len(s) - 1)) + DigitVal(At(s, Len(s)))

\* the limbs of a run of decimal digits: three digits a limb, from the right
RECURSIVE LimbsOfDigits(_)
LimbsOfDigits(s) ==
    IF Len(s) <= 3 THEN <<SmallOfDigits(s)>>
    ELSE <<SmallOfDigits(SubSeq(s, Len(s) - 2, Len(s)))>>
         \o LimbsOfDigits(SubSeq(s, 1, Len(s) - 3))

\* the value of a run of decimal digits
MagOfDigits(s) == MagTrim(LimbsOfDigits(s))

\* a limb as exactly three digits
Limb3(d) ==
    DigitChar(d \div 100) \o DigitChar((d \div 10) % 10) \o DigitChar(d % 10)

RECURSIVE StripZeros(_)
StripZeros(s) ==
    IF Len(s) > 1 /\ At(s, 1) = "0" THEN StripZeros(Tail(s)) ELSE s

RECURSIVE MagText(_)
MagText(m) == IF m = <<>> THEN "" ELSE MagText(Tail(m)) \o Limb3(m[1])

\* BigInt.prototype.toString(): decimal, "-" for negatives, no leading zeros
BigToString(a) ==
    IF a.mag = <<>> THEN "0"
    ELSE (IF a.neg THEN "-" ELSE "") \o StripZeros(MagText(a.mag))

----------------------------------------------------------------------------
(* JavaScript values.  Every value is a record with a type tag t:          *)
(*   undefined, null, boolean (b), string (s), bigint (v: Big),            *)
(*   number (k: "int", "frac", "nan" or "inf"; v: the integer part, a Big; *)
(*   a "frac" number is v plus a non-zero fraction), object (f: a function *)
(*   from the property names present to their values),                     *)
(*   throw (msg): an exception propagating out of a call.                  *)

Undefined == [t |-> "undefined"]

Null == [t |-> "null"]

Str(s) == [t |-> "string", s |-> s]

BigV(b) == [t |-> "bigint", v |-> b]

Num(b) == [t |-> "number", k |-> "int", v |-> b]

Frac(b) == [t |-> "number", k |-> "frac", v |-> b]

NaN == [t |-> "number", k |-> "nan", v |-> BigZero]

Obj(f) == [t |-> "object", f |-> f]

Throw(m) == [t |-> "throw", msg |-> m]

IsThrow(v) == v.t = "throw"

HasProp(o, name) == name \in DOMAIN o.f

\* o.name: the property's value, undefined when absent
Prop(o, name) == IF HasProp(o, name) THEN o.f[name] ELSE Undefined

\* a ?? b
Coalesce(a, b) == IF a.t \in {"undefined", "null"} THEN b ELSE a

WhiteSpace == {" ", "\t", "\n", "\r"}

RECURSIVE TrimStart(_)
TrimStart(s) ==
    IF s # "" /\ At(s, 1) \in WhiteSpace THEN TrimStart(Tail(s)) ELSE s

RECURSIVE TrimEnd(_)
TrimEnd(s) ==
    IF s # "" /\ At(s, Len(s)) \in WhiteSpace
    THEN TrimEnd(SubSeq(s, 1, Len(s) - 1))
    ELSE s

\* String.prototype.trim
Trim(s) == TrimEnd(TrimStart(s))

StartsWith(s, p) == Len(s) >= Len(p) /\ SubSeq(s, 1, Len(p)) = p

EndsWith(s, p) == Len(s) >= Len(p) /\ SubSeq(s, Len(s) - Len(p) + 1, Len(s)) = p

\* the text after an optional leading sign from signs
Unsigned(s, signs) == IF s # "" /\ At(s, 1) \in signs THEN Tail(s) ELSE s

IsNegText(s) == s # "" /\ At(s, 1) = "-"

\* BigInt(string): StringToBigInt on the trimmed text.  Decimal literals only:
\* the 0x, 0o and 0b literals JavaScript also reads are not among the inputs
\* drawn here.
StringToBigInt(s) ==
    LET u      == Trim(s)
        digits == Unsigned(u, {"+", "-"})
    IN  IF u = "" THEN BigV(BigZero)
        ELSE IF digits # "" /\ AllDigits(digits)
        THEN BigV(MkBig(IsNegText(u), MagOfDigits(digits)))
        ELSE Throw("SyntaxError: Cannot convert " \o s \o " to a BigInt")

\* BigInt(value)
ToBigInt(v) ==
    CASE v.t = "bigint"  -> v
      [] v.t = "number"  ->
            IF v.k = "int" THEN BigV(v.v)
            ELSE Throw("RangeError: not an integer, cannot be converted to a BigInt")
      [] v.t = "string"  -> StringToBigInt(v.s)
      [] v.t = "boolean" -> BigV(IF v.b THEN BigOf(1) ELSE BigZero)
      [] OTHER           -> Throw("TypeError: Cannot convert to a BigInt")

\* the position of the first "." of s, 0 when there is none
RECURSIVE DotAt(_, _)
DotAt(s, i) ==
    IF i > Len(s) THEN 0 ELSE IF At(s, i) = "." THEN i ELSE DotAt(s, i + 1)

RECURSIVE AllZeros(_)
AllZeros(s) == s = "" \/ (At(s, 1) = "0" /\ AllZeros(Tail(s)))

\* Number(string): StringToNumber on the trimmed text, for decimal literals
\* with an optional sign and an optional fraction; any other text drawn here
\* is not a numeric literal and gives NaN.
StringToNumber(s) ==
    LET u    == Trim(s)
        body == Unsigned(u, {"+", "-"})
        dot  == DotAt(body, 1)
        ip   == IF dot = 0 THEN body ELSE SubSeq(body, 1, dot - 1)
        fp   == IF dot = 0 THEN "" ELSE SubSeq(body, dot + 1, Len(body))
        mag  == MkBig(IsNegText(u), MagOfDigits(ip))
    IN  IF u = "" THEN Num(BigZero)
        ELSE IF ip \o fp # "" /\ AllDigits(ip) /\ AllDigits(fp)
        THEN (IF AllZeros(fp) THEN Num(mag) ELSE Frac(mag))
        ELSE NaN

\* Number(value)
ToNumber(v) ==
    CASE v.t = "number"    -> v
      [] v.t = "string"    -> StringToNumber(v.s)
      [] v.t = "boolean"   -> Num(IF v.b THEN BigOf(1) ELSE BigZero)
      [] v.t = "null"      -> Num(BigZero)
      [] v.t = "bigint"    -> Num(v.v)
      [] OTHER             -> NaN

\* Number.isFinite(v)
IsFinite(v) == v.t = "number" /\ v.k \in {"int", "frac"}

\* Number.isInteger(v)
IsInteger(v) == v.t = "number" /\ v.k = "int"

----------------------------------------------------------------------------
(* Date math helpers.                                                      *)

SEC_PER_DAY == 86400

ONE_BILLION == BigMul(BigOf(1000000), BigOf(1000))

Instant(s, n) == [t |-> "instant", seconds |-> s, nanos |-> n]

\* the branch n < 0 with the borrow computed: s -= borrow; n += borrow * 1e9
Borrowed(s, n, borrow) ==
    Instant(BigSub(s, borrow), BigToInt(BigAdd(n, BigMul(borrow, ONE_BILLION))))

\* the body of normalizeNanos on the two BigInts s and n
Normalized(s, n) ==
    IF BigGe(n, ONE_BILLION)
    THEN Instant(BigAdd(s, BigDiv(n, ONE_BILLION)), BigToInt(BigRem(n, ONE_BILLION)))
    ELSE IF BigLt(n, BigZero)
    THEN Borrowed(s, n, BigDiv(BigSub(BigAdd(BigNeg(n), ONE_BILLION), BigOf(1)),
                               ONE_BILLION))
    ELSE Instant(s, BigToInt(n))

\* the exception of the two conversions that open normalizeNanos, if any
Converted(s, n) == IF IsThrow(s) THEN s ELSE IF IsThrow(n) THEN n ELSE Undefined

\* as normalizeNanos, but the overflow branch moves a single second out of n
\* (a subtraction where the source divides)
normalizeNanos_OneSecond(secondsBig, nanosInt) ==
    LET s == ToBigInt(secondsBig)
        n == ToBigInt(nanosInt)
    IN  IF IsThrow(Converted(s, n)) THEN Converted(s, n)
        ELSE IF BigGe(n.v, ONE_BILLION)
        THEN Instant(BigAdd(s.v, BigOf(1)), BigToInt(BigSub(n.v, ONE_BILLION)))
        ELSE Normalized(s.v, n.v)

\* as normalizeNanos, but the borrow is the plain (truncating) quotient of
\* -n, not the ceiling
normalizeNanos_FloorBorrow(secondsBig, nanosInt) ==
    LET s == ToBigInt(secondsBig)
        n == ToBigInt(nanosInt)
    IN  IF IsThrow(Converted(s, n)) THEN Converted(s, n)
        ELSE IF BigLt(n.v, BigZero)
        THEN Borrowed(s.v, n.v, BigDiv(BigNeg(n.v), ONE_BILLION))
        ELSE Normalized(s.v, n.v)

\* normalizeNanos(secondsBig, nanosInt): an Instant, or the exception of a
\* BigInt conversion
normalizeNanos(secondsBig, nanosInt) ==
    LET s == ToBigInt(secondsBig)
        n == ToBigInt(nanosInt)
    IN  IF IsThrow(Converted(s, n)) THEN Converted(s, n) ELSE Normalized(s.v, n.v)

\* as MatchesInteger, with either sign
MatchesInteger_AnySign(s) ==
    Unsigned(s, {"-", "+"}) # "" /\ AllDigits(Unsigned(s, {"-", "+"}))

\* /^-?\d+$/.test(s)
MatchesInteger(s) ==
    Unsigned(s, {"-"}) # "" /\ AllDigits(Unsigned(s, {"-"}))

DaysError == "days must be an integer"

\* parseDays(value): a bigint, or the exception
parseDays(value) ==
    IF value.t = "number" /\ IsInteger(value) THEN ToBigInt(value)
    ELSE IF value.t = "string" /\ MatchesInteger(value.s) THEN ToBigInt(value)
    ELSE Throw(DaysError)

----------------------------------------------------------------------------
(* The Date built-in: time values are integer milliseconds since the epoch *)
(* (Big), NaN being the invalid Date.                                      *)

\* the characters of s from position i (1-based), at most n of them
Mid(s, i, n) ==
    IF i > Len(s) \/ n <= 0 THEN "" ELSE SubSeq(s, i, Lo(i + n - 1, Len(s)))

\* String.prototype.slice(0, n)
Slice0(s, n) == Mid(s, 1, n)

CharAt(s, i) == Mid(s, i, 1)

MsPerDay == BigMul(BigOf(86400), BigOf(1000))

\* the largest time value a Date holds: 8.64e15 ms (100,000,000 days)
MaxTime == BigMul(BigOf(100000000), MsPerDay)

\* TimeClip: NaN outside -8.64e15 .. 8.64e15
TimeClip(ms) ==
    IF MagCmp(ms.mag, MaxTime.mag) > 0 THEN NaN ELSE Num(ms)

\* the day number of the date whose March-based year is yy, month index mp
\* (March = 0) and day of month d
DaysFromShifted(yy, mp, d) ==
    (yy \div 400) * 146097
    + (yy % 400) * 365 + (yy % 400) \div 4 - (yy % 400) \div 100
    + (153 * mp + 2) \div 5 + d - 1
    - 719468

\* the day number (days since 1970-01-01) of the proleptic Gregorian date
\* y-m-d, m in 1..12; a day beyond the month's end runs into the next month
DaysFromCivil(y, m, d) ==
    DaysFromShifted(IF m <= 2 THEN y - 1 ELSE y, IF m > 2 THEN m - 3 ELSE m + 9, d)

YearOfEra(doe) ==
    (doe - doe \div 1460 + doe \div 36524 - doe \div 146096) \div 365

CivilOf(yy, mp, d) ==
    [year  |-> IF mp < 10 THEN yy ELSE yy + 1,
     month |-> IF mp < 10 THEN mp + 3 ELSE mp - 9,
     day   |-> d]

CivilFromDayOfYear(yy, doy) ==
    CivilOf(yy, (5 * doy + 2) \div 153,
            doy - (153 * ((5 * doy + 2) \div 153) + 2) \div 5 + 1)

CivilFromEra(era, doe, yoe) ==
    CivilFromDayOfYear(yoe + era * 400, doe - (365 * yoe + yoe \div 4 - yoe \div 100))

\* the proleptic Gregorian date of day number z
CivilFromDays(z) ==
    CivilFromEra((z + 719468) \div 146097, (z + 719468) % 146097,
                 YearOfEra((z + 719468) % 146097))

\* k (>= 0) as exactly w decimal digits
RECURSIVE Pad(_, _)
Pad(k, w) == IF w = 0 THEN "" ELSE Pad(k \div 10, w - 1) \o DigitChar(k % 10)

\* the year of an ISO string: four digits for 0..9999, otherwise a sign and
\* six digits
YearText(y) ==
    IF y >= 0 /\ y <= 9999 THEN Pad(y, 4)
    ELSE IF y < 0 THEN "-" \o Pad(-y, 6)
    ELSE "+" \o Pad(y, 6)

\* the ISO text of the date c and the time of day tod (ms since midnight)
IsoText(c, tod) ==
    YearText(c.year) \o "-" \o Pad(c.month, 2) \o "-" \o Pad(c.day, 2)
    \o "T" \o Pad(tod \div 3600000, 2)
    \o ":" \o Pad((tod \div 60000) % 60, 2)
    \o ":" \o Pad((tod \div 1000) % 60, 2)
    \o "." \o Pad(tod % 1000, 3) \o "Z"

\* Date.prototype.toISOString of new Date(ms), ms a number: the text
\* YYYY-MM-DDTHH:mm:ss.sssZ, or a RangeError for the invalid Date
toISOString(ms) ==
    IF ~IsFinite(ms) \/ TimeClip(ms.v) = NaN
    THEN Throw("RangeError: Invalid time value")
    ELSE Str(IsoText(CivilFromDays(BigToInt(BigFloorDiv(ms.v, MsPerDay))),
                     BigToInt(BigFloorMod(ms.v, MsPerDay))))

\* the number of digits of s from position i on
RECURSIVE DigitRun(_, _)
DigitRun(s, i) ==
    IF CharAt(s, i) \in Digits THEN 1 + DigitRun(s, i + 1) ELSE 0

(***************************************************************************)
(* Date.parse(s), as the V8 engine under Node.js reads a date string.      *)
(* The text is first read as the ECMAScript date-time format               *)
(*   YYYY or +YYYYYY or -YYYYYY, then optionally -MM, then optionally -DD, *)
(*   then optionally THH:mm with optional :ss and optional .s+, then       *)
(*   optionally Z or +hh:mm or -hh:mm or +hhmm or -hhmm.                   *)
(* A date without a time is UTC; a time without a zone is a time of the    *)
(* host's zone.  A day of month up to 31 is accepted and runs into the     *)
(* next month.  Text that leaves the format before the T is handed, with   *)
(* the numbers read so far, to the legacy reader, which collects up to     *)
(* three numbers and takes them for month, day and year (or year, month    *)
(* and day when the first is no day of month) in the host's zone, skipping *)
(* words and punctuation in front of the first number.  Text that leaves   *)
(* the format after the T is no date.                                      *)
(* Of the legacy reader the part modelled is the one that reads numbers,   *)
(* words that are no keyword, signs and punctuation: texts with a month    *)
(* name, a zone name, am or pm, a parenthesis, or a number followed by a   *)
(* colon are not among the texts drawn.                                    *)
(***************************************************************************)

\* the characters of a word of the date reader: the letters and the other
\* ASCII characters from "A" up (the grave accent, never drawn, is left out)
WordChars ==
    {"a", "b", "c", "d", "e", "f", "g", "h", "i", "j", "k", "l", "m", "n", "o",
     "p", "q", "r", "s", "t", "u", "v", "w", "x", "y", "z",
     "A", "B", "C", "D", "E", "F", "G", "H", "I", "J", "K", "L", "M", "N", "O",
     "P", "Q", "R", "S", "T", "U", "V", "W", "X", "Y", "Z",
     "[", "\\", "]", "^", "_", "{", "|", "}", "~"}

\* the number of word characters of s from position i on
RECURSIVE WordRun(_, _)
WordRun(s, i) ==
    IF CharAt(s, i) \in WordChars THEN 1 + WordRun(s, i + 1) ELSE 0

\* the position of the first character c of s at or after i, 0 if none
RECURSIVE IndexFrom(_, _, _)
IndexFrom(s, c, i) ==
    IF i > Len(s) THEN 0 ELSE IF At(s, i) = c THEN i ELSE IndexFrom(s, c, i + 1)

\* the lower case of a character
LowerChar(c) ==
    IF IndexFrom("ABCDEFGHIJKLMNOPQRSTUVWXYZ", c, 1) = 0 THEN c
    ELSE At("abcdefghijklmnopqrstuvwxyz", IndexFrom("ABCDEFGHIJKLMNOPQRSTUVWXYZ", c, 1))

RECURSIVE LowerText(_)
LowerText(w) == IF w = "" THEN "" ELSE LowerChar(At(w, 1)) \o LowerText(Tail(w))

MonthNames ==
    {"jan", "feb", "mar", "apr", "may", "jun", "jul", "aug", "sep", "oct", "nov", "dec"}

\* the word is a keyword of the date reader: a month name, am or pm, a zone
\* name or t; keywords are matched on three characters, and only a month
\* name may be longer
IsKeyword(w) ==
    \/ (Len(w) <= 3
        /\ LowerText(w) \in MonthNames
              \cup {"am", "pm", "ut", "utc", "z", "gmt", "cdt", "cst", "edt", "est",
                    "mdt", "mst", "pdt", "pst", "t"})
    \/ (Len(w) > 3 /\ LowerText(Mid(w, 1, 3)) \in MonthNames)

\* the word at position i of s is the one-letter keyword whose lower case is
\* letter
IsLetterAt(s, i, letter) == WordRun(s, i) = 1 /\ LowerChar(CharAt(s, i)) = letter

\* the value of a run of digits: leading zeros skipped, nine digits read
Numeral(txt) == SmallOfDigits(Mid(StripZeros(txt), 1, 9))

\* the number at position i of s when it has exactly w digits, otherwise -1
Fixed(s, i, w) == IF DigitRun(s, i) = w THEN SmallOfDigits(Mid(s, i, w)) ELSE -1

IsMonth(x) == x >= 1 /\ x <= 12

IsDay(x) == x >= 1 /\ x <= 31

\* two-digit years of the legacy reader: 0..49 are 2000.., 50..99 are 1950..
Century(y) ==
    IF y >= 0 /\ y <= 49 THEN y + 2000 ELSE IF y >= 50 /\ y <= 99 THEN y + 1900 ELSE y

\* month and day default to 1
PadOnes(comps) == comps \o SubSeq(<<1, 1, 1>>, 1, 3 - Len(comps))

\* year, month and day of three numbers: in that order for the format and
\* when the first is no day of month, otherwise month, day and year
DayFields(c, iso) ==
    IF iso THEN [year |-> c[1], month |-> c[2], day |-> c[3]]
    ELSE IF ~IsDay(c[1]) THEN [year |-> Century(c[1]), month |-> c[2], day |-> c[3]]
    ELSE [year |-> Century(c[3]), month |-> c[1], day |-> c[2]]

\* the time value of the date f at tod ms after midnight in the zone zoneMin
\* minutes east of UTC
TimeOf(f, tod, zoneMin) ==
    IF ~IsMonth(f.month) \/ ~IsDay(f.day) \/ f.year > 999999 \/ f.year < -999999
    THEN NaN
    ELSE TimeClip(BigAdd(BigMul(BigOf(DaysFromCivil(f.year, f.month, f.day)), MsPerDay),
                         BigOf(tod - zoneMin * 60000)))

\* what the reader makes of a text: no date, or the numbers read (comps),
\* whether they were read in the format (iso), the time of day in ms (tod)
\* and the zone in minutes east of UTC (zoneMin)
NoDate == [ok |-> FALSE]

DateFrom(comps, iso, tod, zoneMin) ==
    IF comps = <<>> THEN NoDate
    ELSE [ok |-> TRUE, comps |-> comps, iso |-> iso, tod |-> tod, zoneMin |-> zoneMin]

\* the legacy reader from position i of s, comps the numbers read so far and
\* read whether a number has been read
RECURSIVE Legacy(_, _, _, _)

\* the number n, whose digits end before position j: a fourth number is no
\* date; one "." after the number is skipped, and then one "-"
LegacyNumber(s, j, comps, n) ==
    IF CharAt(s, j) = ":" \/ Len(comps) >= 3 THEN NoDate
    ELSE IF CharAt(s, j) = "."
    THEN Legacy(s, IF CharAt(s, j + 1) = "-" THEN j + 2 ELSE j + 1, Append(comps, n), TRUE)
    ELSE Legacy(s, IF CharAt(s, j) = "-" THEN j + 1 ELSE j, Append(comps, n), TRUE)

\* the word of n characters at position i: a word is skipped in front of the
\* first number unless it touches it
LegacyWord(s, i, n, comps, read) ==
    IF IsKeyword(Mid(s, i, n)) \/ read \/ CharAt(s, i + n) \in Digits THEN NoDate
    ELSE Legacy(s, i + n, comps, read)

Legacy(s, i, comps, read) ==
    IF i > Len(s) THEN DateFrom(comps, FALSE, 0, host)
    ELSE IF CharAt(s, i) \in Digits
    THEN LegacyNumber(s, i + DigitRun(s, i), comps, Numeral(Mid(s, i, DigitRun(s, i))))
    ELSE IF CharAt(s, i) \in WordChars
    THEN LegacyWord(s, i, WordRun(s, i), comps, read)
    ELSE IF CharAt(s, i) \in {"+", "-", ")"}
    THEN (IF read THEN NoDate ELSE Legacy(s, i + 1, comps, read))
    ELSE IF CharAt(s, i) = "(" THEN NoDate
    ELSE Legacy(s, i + 1, comps, read)

\* the end of the format at position p
FormatEnd(s, p, comps, tod, zoneMin) ==
    IF p <= Len(s) THEN NoDate ELSE DateFrom(comps, TRUE, tod, zoneMin)

\* a zone offset after its sign: hhmm or hh:mm
FormatOffset(s, p, comps, tod, sign) ==
    IF Fixed(s, p, 4) >= 0
    THEN (IF (Fixed(s, p, 4) \div 100) <= 23 /\ (Fixed(s, p, 4) % 100) <= 59
          THEN FormatEnd(s, p + 4, comps, tod,
                         sign * ((Fixed(s, p, 4) \div 100) * 60 + (Fixed(s, p, 4) % 100)))
          ELSE NoDate)
    ELSE IF Fixed(s, p, 2) >= 0 /\ Fixed(s, p, 2) <= 23 /\ CharAt(s, p + 2) = ":"
            /\ Fixed(s, p + 3, 2) >= 0 /\ Fixed(s, p + 3, 2) <= 59
    THEN FormatEnd(s, p + 5, comps, tod, sign * (Fixed(s, p, 2) * 60 + Fixed(s, p + 3, 2)))
    ELSE NoDate

\* the zone: Z, an offset, or none (the host's zone)
FormatZone(s, p, comps, tod) ==
    IF IsLetterAt(s, p, "z") THEN FormatEnd(s, p + 1, comps, tod, 0)
    ELSE IF CharAt(s, p) = "+" THEN FormatOffset(s, p + 1, comps, tod, 1)
    ELSE IF CharAt(s, p) = "-" THEN FormatOffset(s, p + 1, comps, tod, -1)
    ELSE FormatEnd(s, p, comps, tod, host)

\* the milliseconds of a fraction of n digits with the value v of its first
\* nine digits after the leading zeros
ReadMilliseconds(v, n) ==
    IF n = 1 THEN v * 100
    ELSE IF n = 2 THEN v * 10
    ELSE IF n = 3 THEN v
    ELSE IF n = 4 THEN v \div 10
    ELSE IF n = 5 THEN v \div 100
    ELSE IF n = 6 THEN v \div 1000
    ELSE IF n = 7 THEN v \div 10000
    ELSE IF n = 8 THEN v \div 100000
    ELSE v \div 1000000

\* the fraction of n digits at position p
FormatMillis(s, p, n, comps, tod, is24) ==
    IF n = 0 \/ (is24 /\ Numeral(Mid(s, p, n)) > 0) THEN NoDate
    ELSE FormatZone(s, p + n, comps, tod + ReadMilliseconds(Numeral(Mid(s, p, n)), n))

\* the optional seconds, with an optional fraction after them
FormatSecond(s, p, comps, tod, is24) ==
    IF CharAt(s, p) # ":" THEN FormatZone(s, p, comps, tod)
    ELSE IF Fixed(s, p + 1, 2) < 0 \/ Fixed(s, p + 1, 2) > 59
            \/ (is24 /\ Fixed(s, p + 1, 2) > 0)
    THEN NoDate
    ELSE IF CharAt(s, p + 3) = "."
    THEN FormatMillis(s, p + 4, DigitRun(s, p + 4), comps,
                      tod + Fixed(s, p + 1, 2) * 1000, is24)
    ELSE FormatZone(s, p + 3, comps, tod + Fixed(s, p + 1, 2) * 1000)

FormatMinute(s, p, comps, hour) ==
    IF Fixed(s, p, 2) < 0 \/ Fixed(s, p, 2) > 59 \/ (hour = 24 /\ Fixed(s, p, 2) > 0)
    THEN NoDate
    ELSE FormatSecond(s, p + 2, comps, (hour * 60 + Fixed(s, p, 2)) * 60000, hour = 24)

\* after the T: the hour, up to 24, and the minute are required
FormatHour(s, p, comps) ==
    IF Fixed(s, p, 2) < 0 \/ Fixed(s, p, 2) > 24 \/ CharAt(s, p + 2) # ":" THEN NoDate
    ELSE FormatMinute(s, p + 3, comps, Fixed(s, p, 2))

\* after the date: a T and the time, or the end (a date in UTC), or the
\* legacy reader
FormatTime(s, p, comps) ==
    IF IsLetterAt(s, p, "t") THEN FormatHour(s, p + 1, comps)
    ELSE IF p > Len(s) THEN DateFrom(comps, TRUE, 0, 0)
    ELSE Legacy(s, p, comps, TRUE)

FormatDay(s, p, comps) ==
    IF CharAt(s, p) # "-" THEN FormatTime(s, p, comps)
    ELSE IF IsDay(Fixed(s, p + 1, 2))
    THEN FormatTime(s, p + 3, Append(comps, Fixed(s, p + 1, 2)))
    ELSE Legacy(s, p + 1, comps, TRUE)

FormatMonth(s, p, comps) ==
    IF CharAt(s, p) # "-" THEN FormatTime(s, p, comps)
    ELSE IF IsMonth(Fixed(s, p + 1, 2))
    THEN FormatDay(s, p + 3, Append(comps, Fixed(s, p + 1, 2)))
    ELSE Legacy(s, p + 1, comps, TRUE)

\* a signed year has six digits and is not -000000
FormatSignedYear(s, sign) ==
    IF Fixed(s, 2, 6) < 0 THEN Legacy(s, 1, <<>>, FALSE)
    ELSE IF sign < 0 /\ Fixed(s, 2, 6) = 0 THEN Legacy(s, 8, <<>>, FALSE)
    ELSE FormatMonth(s, 8, <<sign * Fixed(s, 2, 6)>>)

\* the reading of the text s
ReadDate(s) ==
    IF CharAt(s, 1) = "+" THEN FormatSignedYear(s, 1)
    ELSE IF CharAt(s, 1) = "-" THEN FormatSignedYear(s, -1)
    ELSE IF Fixed(s, 1, 4) >= 0 THEN FormatMonth(s, 5, <<Fixed(s, 1, 4)>>)
    ELSE Legacy(s, 1, <<>>, FALSE)

\* the time value of a reading
TimeValue(d) ==
    IF ~d.ok THEN NaN ELSE TimeOf(DayFields(PadOnes(d.comps), d.iso), d.tod, d.zoneMin)

\* Date.parse(s): a number, NaN when s is read as no date
DateParse(s) == TimeValue(ReadDate(s))

----------------------------------------------------------------------------
(* JSON.parse of the text of a flat object: string, number, true, false    *)
(* and null member values.  Escape sequences, exponents, nested objects    *)
(* and arrays are not among the texts drawn, and integer literals drawn    *)
(* are small enough to be exact as numbers.                                *)

RECURSIVE SkipWs(_, _)
SkipWs(s, i) == IF CharAt(s, i) \in WhiteSpace THEN SkipWs(s, i + 1) ELSE i

JsonFail == [ok |-> FALSE]

JsonGot(v, next) == [ok |-> TRUE, v |-> v, next |-> next]

\* the number with integer digits ip (iLen of them, from position b, negated
\* when neg) and fLen fraction digits after a dot
JsonNumberOf(s, neg, b, iLen, dot, fLen) ==
    IF iLen = 0 \/ (iLen > 1 /\ CharAt(s, b) = "0") \/ (dot /\ fLen = 0)
    THEN JsonFail
    ELSE JsonGot(IF AllZeros(Mid(s, b + iLen + 1, fLen))
                 THEN Num(MkBig(neg, MagOfDigits(Mid(s, b, iLen))))
                 ELSE Frac(MkBig(neg, MagOfDigits(Mid(s, b, iLen)))),
                 b + iLen + (IF dot THEN 1 + fLen ELSE 0))

JsonDigits(s, neg, b, iLen) ==
    JsonNumberOf(s, neg, b, iLen, CharAt(s, b + iLen) = ".",
                 IF CharAt(s, b + iLen) = "." THEN DigitRun(s, b + iLen + 1) ELSE 0)

\* a JSON number at position i: -? digits (. digits)?, no leading zeros
JsonNumber(s, i) ==
    IF CharAt(s, i) = "-" THEN JsonDigits(s, TRUE, i + 1, DigitRun(s, i + 1))
    ELSE JsonDigits(s, FALSE, i, DigitRun(s, i))

\* a JSON string at position i, j the position of its closing quote
JsonString(s, i, j) ==
    IF j = 0 THEN JsonFail ELSE JsonGot(Str(Mid(s, i + 1, j - i - 1)), j + 1)

\* a JSON member value at position i
JsonValue(s, i) ==
    IF CharAt(s, i) = "\"" THEN JsonString(s, i, IndexFrom(s, "\"", i + 1))
    ELSE IF CharAt(s, i) = "-" \/ CharAt(s, i) \in Digits THEN JsonNumber(s, i)
    ELSE IF Mid(s, i, 4) = "true" THEN JsonGot([t |-> "boolean", b |-> TRUE], i + 4)
    ELSE IF Mid(s, i, 5) = "false" THEN JsonGot([t |-> "boolean", b |-> FALSE], i + 5)
    ELSE IF Mid(s, i, 4) = "null" THEN JsonGot(Null, i + 4)
    ELSE JsonFail

JsonError == Throw("SyntaxError: Unexpected token in JSON")

\* the members of an object from position i on, f holding those read so far
RECURSIVE JsonMembers(_, _, _)

\* after a member's value: a comma and more members, or the closing brace
JsonAfterValue(s, f, e0) ==
    IF CharAt(s, e0) = "," THEN JsonMembers(s, e0 + 1, f)
    ELSE IF CharAt(s, e0) = "}" /\ SkipWs(s, e0 + 1) > Len(s) THEN Obj(f)
    ELSE JsonError

JsonMemberValue(s, f, key, val) ==
    IF ~val.ok THEN JsonError
    ELSE JsonAfterValue(s, (key :> val.v) @@ f, SkipWs(s, val.next))

\* a member whose key lies between the quotes at k0 and k1, c0 the position
\* of the colon
JsonMember(s, f, k0, k1, c0) ==
    IF CharAt(s, c0) # ":" THEN JsonError
    ELSE JsonMemberValue(s, f, Mid(s, k0 + 1, k1 - k0 - 1),
                         JsonValue(s, SkipWs(s, c0 + 1)))

JsonKey(s, f, k0, k1) ==
    IF CharAt(s, k0) # "\"" \/ k1 = 0 THEN JsonError
    ELSE JsonMember(s, f, k0, k1, SkipWs(s, k1 + 1))

JsonMembers(s, i, f) ==
    JsonKey(s, f, SkipWs(s, i), IndexFrom(s, "\"", SkipWs(s, i) + 1))

JsonObject(s, k0) ==
    IF CharAt(s, k0) = "}"
    THEN (IF SkipWs(s, k0 + 1) > Len(s) THEN Obj(<<>>) ELSE JsonError)
    ELSE JsonMembers(s, 2, <<>>)

\* JSON.parse(s) for a text that starts with "{"
JsonParse(s) ==
    IF CharAt(s, 1) # "{" THEN JsonError ELSE JsonObject(s, SkipWs(s, 2))

----------------------------------------------------------------------------
(* The timestamp engine.                                                   *)

IsoError ==
    "Invalid ISO date string. Use e.g. 2025-08-17T00:00:00Z or pass {seconds,nanos}."

NanosError == "timestamp.nanos must be finite"

UnsupportedError ==
    "Provide \"date\" as ISO string, stringified {\"seconds\",\"nanos\"}, or object {\"seconds\",\"nanos\"}."

\* with s = BigInt(o.seconds) and n = Number(o.nanos ?? 0): the finiteness
\* check, then normalizeNanos
CheckedInstant(s, n) ==
    IF IsThrow(s) THEN s
    ELSE IF ~IsFinite(n) THEN Throw(NanosError)
    ELSE normalizeNanos(s, n)

\* the body shared by the stringified-object branch and the object branch
FromSecondsNanos(o) ==
    CheckedInstant(ToBigInt(Prop(o, "seconds")),
                   ToNumber(Coalesce(Prop(o, "nanos"), Num(BigZero))))

\* with ms = Date.parse(trimmed): seconds = floor(ms / 1000) and
\* nanos = ((ms % 1000 + 1000) % 1000) * 1_000_000, then normalizeNanos
FromMs(ms) ==
    IF ms = NaN THEN Throw(IsoError)
    ELSE normalizeNanos(
             BigV(BigFloorDiv(ms.v, BigOf(1000))),
             Num(BigMul(BigRem(BigAdd(BigRem(ms.v, BigOf(1000)), BigOf(1000)), BigOf(1000)),
                        BigOf(1000000))))

\* the ISO 8601 path
FromIso(trimmed) == FromMs(DateParse(trimmed))

\* the try block on the parsed text: the Instant, or an exception (thrown by
\* JSON.parse, by a conversion or by the checks) or nothing returned
TryObject(asObj) ==
    IF asObj.t = "object" /\ HasProp(asObj, "seconds")
    THEN FromSecondsNanos(asObj)
    ELSE Throw("")

\* any exception inside the try block falls through to the ISO path
OrIso(tried, trimmed) == IF ~IsThrow(tried) THEN tried ELSE FromIso(trimmed)

FromString(trimmed) ==
    IF StartsWith(trimmed, "{") THEN OrIso(TryObject(JsonParse(trimmed)), trimmed)
    ELSE FromIso(trimmed)

\* parseInputToEpoch(dateInput): an Instant, or the exception thrown
parseInputToEpoch(dateInput) ==
    IF dateInput.t = "string" THEN FromString(Trim(dateInput.s))
    ELSE IF dateInput.t = "object" /\ HasProp(dateInput, "seconds")
    THEN FromSecondsNanos(dateInput)
    ELSE Throw(UnsupportedError)

\* as Outputs, with date_iso cut at the minutes
Outputs_MinuteIso(norm, isoFull) ==
    IF IsThrow(isoFull) THEN isoFull
    ELSE [t         |-> "result",
          date_ymd  |-> Slice0(isoFull.s, 10),
          date_iso  |-> Slice0(isoFull.s, 16) \o "Z",
          timestamp |-> [seconds |-> BigToString(norm.seconds), nanos |-> norm.nanos]]

\* the result object of the Instant norm whose Date has the ISO text isoFull
Outputs(norm, isoFull) ==
    IF IsThrow(isoFull) THEN isoFull
    ELSE [t         |-> "result",
          date_ymd  |-> Slice0(isoFull.s, 10),
          date_iso  |-> Slice0(isoFull.s, 19) \o "Z",
          timestamp |-> [seconds |-> BigToString(norm.seconds), nanos |-> norm.nanos]]

\* ms = Number(seconds) * 1000 + Math.floor(nanos / 1_000_000).  The sum is
\* exact in floating point up to 2^53, beyond the largest time value, so the
\* Date it gives is invalid exactly when the exact sum is out of range.
OutputsOf(norm) ==
    IF IsThrow(norm) THEN norm
    ELSE Outputs(norm, toISOString(Num(BigAdd(BigMul(norm.seconds, BigOf(1000)),
                                              BigOf(norm.nanos \div 1000000)))))

\* epochToOutputs(secondsBig, nanosInt): the result object, or the exception
epochToOutputs(secondsBig, nanosInt) ==
    OutputsOf(normalizeNanos(secondsBig, nanosInt))

\* seconds + daysBig * SEC_PER_DAY
resultSeconds(seconds, daysBig) ==
    BigAdd(seconds, BigMul(daysBig, BigOf(SEC_PER_DAY)))

AddDaysTo(parsed, daysBig) ==
    IF IsThrow(parsed) THEN parsed
    ELSE IF IsThrow(daysBig) THEN daysBig
    ELSE epochToOutputs(BigV(resultSeconds(parsed.seconds, daysBig.v)),
                        Num(BigOf(parsed.nanos)))

\* handleAddDays({ date, days }): the result object, or the exception
handleAddDays(date, days) == AddDaysTo(parseInputToEpoch(date), parseDays(days))

----------------------------------------------------------------------------
(* The list tokenizer.                                                     *)

Arr(items) == [t |-> "array", items |-> items]

\* String(v) for the values drawn: strings, undefined, null and integers
ToStr(v) ==
    CASE v.t = "string"    -> v.s
      [] v.t = "undefined" -> "undefined"
      [] v.t = "null"      -> "null"
      [] v.t = "number"    -> BigToString(v.v)
      [] OTHER             -> "[object Object]"

\* as NonEmpty, but a string equal to an earlier one is left out
NonEmpty_Dedup(items) ==
    LET F[i \in 0..Len(items)] ==
            IF i = 0 THEN <<>>
            ELSE IF items[i] = "" \/ (\E j \in 1..(i - 1) : items[j] = items[i])
            THEN F[i - 1]
            ELSE Append(F[i - 1], items[i])
    IN  F[Len(items)]

\* the non-empty strings of a sequence, in order: filter(Boolean)
RECURSIVE NonEmpty(_)
NonEmpty(items) ==
    IF items = <<>> THEN <<>>
    ELSE (IF Head(items) = "" THEN <<>> ELSE <<Head(items)>>) \o NonEmpty(Tail(items))

\* items with token pushed when it is non-empty after trimming
Push(items, buf) == IF Trim(buf) = "" THEN items ELSE Append(items, Trim(buf))

\* as Scan, but a comma ends the token inside a quoted span too
RECURSIVE Scan_SplitInQuotes(_, _, _, _, _, _)
Scan_SplitInQuotes(raw, i, buf, inQuote, quoteChar, items) ==
    IF i >= Len(raw) THEN Push(items, buf)
    ELSE LET ch == At(raw, i + 1)
         IN  IF ch = ","
             THEN Scan_SplitInQuotes(raw, i + 1, "", inQuote, quoteChar, Push(items, buf))
             ELSE IF inQuote
             THEN IF ch = quoteChar
                  THEN Scan_SplitInQuotes(raw, i + 1, buf, FALSE, "", items)
                  ELSE IF ch = "\\" /\ i + 1 < Len(raw)
                  THEN Scan_SplitInQuotes(raw, i + 2, buf \o At(raw, i + 2), TRUE,
                                          quoteChar, items)
                  ELSE Scan_SplitInQuotes(raw, i + 1, buf \o ch, TRUE, quoteChar, items)
             ELSE IF ch = "\"" \/ ch = "'"
                  THEN Scan_SplitInQuotes(raw, i + 1, buf, TRUE, ch, items)
                  ELSE Scan_SplitInQuotes(raw, i + 1, buf \o ch, FALSE, "", items)

\* the scan of parseStringList from index i (0-based, as in the source) with
\* the buffer, the quote flag and the opening quote character: the items
\* after the loop and the final flush
RECURSIVE Scan(_, _, _, _, _, _)
Scan(raw, i, buf, inQuote, quoteChar, items) ==
    IF i >= Len(raw) THEN Push(items, buf)
    ELSE LET ch == At(raw, i + 1)
         IN  IF inQuote
             THEN IF ch = quoteChar
                  THEN Scan(raw, i + 1, buf, FALSE, "", items)
                  ELSE IF ch = "\\" /\ i + 1 < Len(raw)
                  THEN Scan(raw, i + 2, buf \o At(raw, i + 2), TRUE, quoteChar, items)
                  ELSE Scan(raw, i + 1, buf \o ch, TRUE, quoteChar, items)
             ELSE IF ch = "\"" \/ ch = "'"
                  THEN Scan(raw, i + 1, buf, TRUE, ch, items)
                  ELSE IF ch = ","
                  THEN Scan(raw, i + 1, "", FALSE, "", Push(items, buf))
                  ELSE Scan(raw, i + 1, buf \o ch, FALSE, "", items)

\* the items of the scan of raw
ScanList(raw) == Scan(raw, 0, "", FALSE, "", <<>>)

\* the callback of the closing map: surrounding quotes removed, then trimmed
Unwrap(tok) ==
    IF (StartsWith(tok, "\"") /\ EndsWith(tok, "\""))
       \/ (StartsWith(tok, "'") /\ EndsWith(tok, "'"))
    THEN Trim(Mid(tok, 2, Len(tok) - 2))
    ELSE Trim(tok)

RECURSIVE MapUnwrap(_)
MapUnwrap(items) ==
    IF items = <<>> THEN <<>> ELSE <<Unwrap(Head(items))>> \o MapUnwrap(Tail(items))

RECURSIVE MapTrimStr(_)
MapTrimStr(items) ==
    IF items = <<>> THEN <<>>
    ELSE <<Trim(ToStr(Head(items)))>> \o MapTrimStr(Tail(items))

\* parseStringList(input): the list of items
parseStringList(input) ==
    IF input.t = "array" THEN NonEmpty(MapTrimStr(input.items))
    ELSE LET raw == Trim(ToStr(Coalesce(input, Str(""))))
         IN  IF raw = "" THEN <<>>
             ELSE NonEmpty(MapUnwrap(ScanList(raw)))

----------------------------------------------------------------------------
(* Inputs.                                                                 *)

\* the BigInt written as decimal text
Dec(text) == StringToBigInt(text).v

\* nanos inputs reach MaxNanosSteps half-billions either side of zero
MaxNanosSteps == 5

\* a run of day additions has at most MaxChain steps
MaxChain == 2

\* list texts have at most MaxLen characters
MaxLen == 4

\* epoch seconds: around the epoch, the two scenarios of the specification,
\* the ends of the four-digit years (0000-01-01T00:00:00Z is -62167219200,
\* 9999-12-31T23:59:59Z is 253402300799), the ends of the Date range
\* (8,640,000,000,000 s either side), 2^53 + 1 and a 30-digit value
SecondsTexts ==
    {"0", "-1", "10", "1608826790", "1755388800",
     "253402300799", "253402300800", "-62167219200", "-62167219201",
     "8640000000000", "8640000000001", "-8640000000001",
     "9007199254740993", "-123456789012345678901234567890"}

NormSecondsTexts == {"0", "10", "-1", "9007199254740993"}

NanosInputs ==
    {BigAdd(BigMul(BigOf(k), BigOf(500000000)), BigOf(j)) :
        k \in (-MaxNanosSteps)..MaxNanosSteps, j \in {-1, 0, 1}}

\* nanos of an Instant (in range)
InstantNanos == {0, 1, 1000000, 500000000, 999000000, 999999999}

\* the zone of the host, in minutes east of UTC
HostOffsets == {0, 330, -480}

OneProp(k, v) == k :> v

TwoProps(k1, v1, k2, v2) == (k1 :> v1) @@ (k2 :> v2)

\* date inputs that follow an accepted encoding
IsoDates ==
    {Str("2025-08-17T00:00:00Z"), Str("1969-12-31T23:59:59.500Z"),
     Str(" 2025-08-17 "), Str("2020-02-29T12:34:56.789Z"),
     Str("0000-01-01T00:00:00Z"), Str("+010000-01-01T00:00:00Z"),
     Str("2025-08-17T02:00:00+02:00"), Str("2025-08-17T10:30")}

JsonDates ==
    {Str("{\"seconds\":\"1608826790\",\"nanos\":0}"),
     Str(" { \"seconds\" : 5 , \"nanos\" : -1 } "),
     Str("{\"seconds\":\"9007199254740993\"}"),
     Str("{\"nanos\":2500000000,\"seconds\":\"-7\"}")}

\* the objects {seconds, nanos} with seconds the decimal text t and nanos
\* absent or in range
StructuredOf(t) ==
    {Obj(OneProp("seconds", Str(t))),
     Obj(TwoProps("seconds", Str(t), "nanos", Num(BigOf(0)))),
     Obj(TwoProps("seconds", Str(t), "nanos", Num(BigOf(999999999))))}

ObjectDates ==
    UNION {StructuredOf(t) : t \in SecondsTexts}
    \cup {Obj(TwoProps("seconds", Str(t), "nanos", Num(BigOf(-1)))) : t \in SecondsTexts}
    \cup {Obj(TwoProps("seconds", Num(Dec(t)), "nanos", Str("1500000000"))) :
            t \in {"0", "-1", "1608826790"}}

\* date inputs that follow no accepted encoding: text that is neither an ISO
\* 8601 date nor an object with seconds, and values that are neither a
\* string nor an object with a seconds property
UnsupportedDates ==
    {Str("not-a-date"), Str(""), Str("{}"), Str("{\"nanos\":1}"), Str("{seconds"),
     Str("hello 1"), Str("not-a-date-1"), Str("7"),
     Undefined, Null, Num(BigOf(5)), [t |-> "boolean", b |-> TRUE],
     Obj(OneProp("nanos", Num(BigZero))), Obj(<<>>)}

\* dates written in other ways
LenientDates == {Str("12/25/2021"), Str("2021-6-15"), Str("2021-02-31")}

\* objects with seconds whose seconds or nanos cannot be converted
BrokenDates ==
    {Obj(OneProp("seconds", Str("1.5"))), Obj(OneProp("seconds", Str("abc"))),
     Obj(OneProp("seconds", Frac(BigOf(1)))), Obj(OneProp("seconds", Null)),
     Obj(TwoProps("seconds", Str("1"), "nanos", Str("x"))),
     Obj(TwoProps("seconds", Str("1"), "nanos", Frac(BigOf(1)))),
     Obj(TwoProps("seconds", Str("1"), "nanos", NaN)),
     Str("{\"seconds\":\"5\",\"nanos\":\"x\"}"),
     Str("{\"seconds\":\"5\",\"nanos\":1.5}"),
     Str("{\"seconds\":\"abc\"}")}

DateInputs == IsoDates \cup JsonDates \cup ObjectDates \cup UnsupportedDates
              \cup LenientDates \cup BrokenDates

\* integers a days value may stand for
DaysTexts == {"0", "5", "-10", "1", "-1", "36500", "100000000001", "-100000000001"}

\* a days value standing for the integer written as text: the number, the
\* decimal string and the decimal string with leading zeros
DaysForms(text) ==
    {Num(Dec(text)), Str(text),
     Str((IF IsNegText(text) THEN "-" ELSE "") \o "00" \o Unsigned(text, {"-"}))}

IntegerDays == UNION {DaysForms(text) : text \in DaysTexts}

NonIntegerDays ==
    {Str("3.5"), Str(""), Str("+5"), Str(" 5"), Str("5 "), Str("5\n"), Str("-"),
     Str("--5"), Str("1e3"), Str("abc"), Str("5-"), Str("0x10"),
     Frac(BigOf(3)), Frac(BigOf(-1)), NaN,
     [t |-> "number", k |-> "inf", v |-> BigZero],
     Undefined, Null, [t |-> "boolean", b |-> TRUE], BigV(BigOf(5)),
     Obj(<<>>), Arr(<<"5">>)}

DaysInputs == IntegerDays \cup NonIntegerDays

\* days values for the add-days pipeline
PipelineDays ==
    {Num(BigOf(5)), Num(BigOf(-10)), Str("5"), Str("-10"), Str("0"), Str("36500"),
     Str("100000000001"), Str("-100000000001"), Str("3.5"), Undefined}

\* the date input {seconds, nanos} of a timestamp the pipeline returned
AsDate(ts) ==
    Obj(TwoProps("seconds", Str(ts.seconds), "nanos", Num(BigOf(ts.nanos))))

ChainStarts ==
    {AsDate([seconds |-> "0", nanos |-> 0]),
     AsDate([seconds |-> "1608826790", nanos |-> 500000000]),
     AsDate([seconds |-> "-1", nanos |-> 999999999]),
     AsDate([seconds |-> "8640000000000", nanos |-> 1])}

ChainDays == {"-10", "-1", "5", "36500", "100000000001", "-100000000001"}

Alphabet == {"a", ",", "\"", "'", " ", "\\"}

RECURSIVE TextsUpTo(_)
TextsUpTo(n) ==
    IF n = 0 THEN {""}
    ELSE LET shorter == TextsUpTo(n - 1)
         IN  shorter \cup {t \o c : t \in shorter, c \in Alphabet}

IdsText == "\"id1\", \"id2\", 'id 3'"

ListTexts ==
    TextsUpTo(MaxLen)
    \cup {IdsText, "\"a\\\"b\",c", "\"a\",, \"b\"", "\"a, b\", 'c,d',e", "x,\"y,z",
          "\"\\\"a\\\"\"", "a,b,a"}

ListArrays ==
    {Arr(<<>>), Arr(<<Str("a")>>), Arr(<<Str(" a "), Str(""), Str("a")>>),
     Arr(<<Str("\"a\""), Str("b,c")>>), Arr(<<Str("b"), Str("a"), Str("  ")>>)}

----------------------------------------------------------------------------
(* The state machine.  The engines are stateless: a behaviour is one call  *)
(* with its arguments drawn in the initial state, on a host whose zone is  *)
(* drawn with them, followed by the calls that feed on its result.         *)

NoChain == [steps |-> 0]

Call(name, a, zone) ==
    /\ op = name
    /\ pc = "call"
    /\ arg = a
    /\ res = Undefined
    /\ chain = NoChain
    /\ host = zone

InitTime ==
    \/ \E st \in NormSecondsTexts, n \in NanosInputs :
          Call("normalizeNanos", [seconds |-> Dec(st), nanos |-> n], 0)
    \/ \E v \in DaysInputs : Call("parseDays", v, 0)
    \/ \E d \in DateInputs, zone \in HostOffsets : Call("parseInputToEpoch", d, zone)
    \/ \E d \in DateInputs, k \in PipelineDays, zone \in HostOffsets :
          Call("handleAddDays", [date |-> d, days |-> k], zone)
    \/ \E st \in SecondsTexts, n \in InstantNanos, zone \in HostOffsets :
          Call("epochToOutputs", Instant(Dec(st), n), zone)
    \/ \E d \in ChainStarts, k \in ChainDays :
          Call("addDays", [date |-> d, days |-> Str(k)], 0)

Return(value) ==
    /\ pc' = "done"
    /\ res' = value
    /\ UNCHANGED <<op, arg, host>>

\* normalizeNanos(s, n) on a BigInt and an integer number
Normalize ==
    /\ pc = "call" /\ op = "normalizeNanos"
    /\ Return(normalizeNanos(BigV(arg.seconds), Num(arg.nanos)))
    /\ UNCHANGED chain

\* normalizeNanos applied to the Instant a normalizeNanos call returned
Renormalize ==
    /\ pc = "done" /\ op = "normalizeNanos"
    /\ ~IsThrow(res)
    /\ op' = "renormalize"
    /\ pc' = "done"
    /\ arg' = [input |-> arg, first |-> res]
    /\ res' = normalizeNanos(BigV(res.seconds), Num(BigOf(res.nanos)))
    /\ UNCHANGED <<chain, host>>

ParseDays ==
    /\ pc = "call" /\ op = "parseDays"
    /\ Return(parseDays(arg))
    /\ UNCHANGED chain

ParseInput ==
    /\ pc = "call" /\ op = "parseInputToEpoch"
    /\ Return(parseInputToEpoch(arg))
    /\ UNCHANGED chain

HandleAddDays ==
    /\ pc = "call" /\ op = "handleAddDays"
    /\ Return(handleAddDays(arg.date, arg.days))
    /\ UNCHANGED chain

\* epochToOutputs on an Instant
Render ==
    /\ pc = "call" /\ op = "epochToOutputs"
    /\ Return(epochToOutputs(BigV(arg.seconds), Num(BigOf(arg.nanos))))
    /\ UNCHANGED chain

\* parseInputToEpoch on the date_iso text epochToOutputs returned
RoundTrip ==
    /\ pc = "done" /\ op = "epochToOutputs"
    /\ res.t = "result"
    /\ op' = "roundTrip"
    /\ pc' = "done"
    /\ arg' = [instant |-> arg, text |-> res.date_iso]
    /\ res' = parseInputToEpoch(Str(res.date_iso))
    /\ UNCHANGED <<chain, host>>

\* the first day addition of a run: handleAddDays on a {seconds, nanos} date
AddDaysFirst ==
    /\ pc = "call" /\ op = "addDays"
    /\ Return(handleAddDays(arg.date, arg.days))
    /\ chain' = [steps |-> 1, start |-> arg.date, total |-> Dec(arg.days.s)]

\* a further day addition: handleAddDays on the timestamp the last one
\* returned; the run has failed once an addition has thrown
AddDaysAgain ==
    \E k \in ChainDays :
        /\ pc = "done" /\ op = "addDays"
        /\ chain.steps < MaxChain
        /\ arg' = [date |-> IF IsThrow(res) THEN arg.date ELSE AsDate(res.timestamp),
                   days |-> Str(k)]
        /\ res' = IF IsThrow(res) THEN res
                  ELSE handleAddDays(AsDate(res.timestamp), Str(k))
        /\ chain' = [steps |-> chain.steps + 1, start |-> chain.start,
                     total |-> BigAdd(chain.total, Dec(k))]
        /\ UNCHANGED <<op, pc, host>>

Next ==
    \/ Normalize
    \/ Renormalize
    \/ ParseDays
    \/ ParseInput
    \/ HandleAddDays
    \/ Render
    \/ RoundTrip
    \/ AddDaysFirst
    \/ AddDaysAgain

Spec == InitTime /\ [][Next]_vars

InitList ==
    \/ \E raw \in ListTexts : Call("parseStringList", Str(raw), 0)
    \/ \E a \in ListArrays : Call("parseStringList", a, 0)

\* parseStringList on a string: the items the scan produced are recorded
\* beside the list returned
ParseListText ==
    /\ pc = "call" /\ op = "parseStringList" /\ arg.t = "string"
    /\ Return([scanned |-> ScanList(Trim(arg.s)), items |-> parseStringList(arg)])
    /\ UNCHANGED chain

\* parseStringList on an array
ParseListArray ==
    /\ pc = "call" /\ op = "parseStringList" /\ arg.t = "array"
    /\ Return([scanned |-> <<>>, items |-> parseStringList(arg)])
    /\ UNCHANGED chain

NextList ==
    \/ ParseListText
    \/ ParseListArray

SpecList == InitList /\ [][NextList]_vars

----------------------------------------------------------------------------
(* Properties.                                                             *)

Returned(name) == op = name /\ pc = "done"

\* s * 1_000_000_000 + n
TotalNanos(s, n) == BigAdd(BigMul(s, ONE_BILLION), n)

\* C1: normalizeNanos(s, n) returns an Instant whose nanos is in
\* 0..999999999 and whose total seconds * 1e9 + nanos is s * 1e9 + n, that
\* is seconds = s + floor(n / 1e9) and nanos = n mod 1e9; normalize(10, -1)
\* is {9, 999999999} and normalize(0, 2500000000) is {2, 500000000}.
C1_NormalizeContract ==
    Returned("normalizeNanos") =>
        /\ res.t = "instant"
        /\ res.nanos \in 0..999999999
        /\ TotalNanos(res.seconds, BigOf(res.nanos)) = TotalNanos(arg.seconds, arg.nanos)
        /\ res.seconds = BigAdd(arg.seconds, BigFloorDiv(arg.nanos, ONE_BILLION))
        /\ BigOf(res.nanos) = BigFloorMod(arg.nanos, ONE_BILLION)
        /\ (arg = [seconds |-> BigOf(10), nanos |-> BigOf(-1)]
               => res = Instant(BigOf(9), 999999999))
        /\ (arg = [seconds |-> BigOf(0), nanos |-> Dec("2500000000")]
               => res = Instant(BigOf(2), 500000000))

\* normalize(10, -1) has returned {9, 999999999}
C1_Witness ==
    /\ Returned("normalizeNanos")
    /\ arg = [seconds |-> BigOf(10), nanos |-> BigOf(-1)]
    /\ res = Instant(BigOf(9), 999999999)

\* the timestamp of a result of the pipeline, as an Instant
InstantOf(r) == Instant(Dec(r.timestamp.seconds), r.timestamp.nanos)

\* C2: for every date input that parses to an Instant {s, n} and every days
\* value d that parseDays accepts, handleAddDays returns timestamp.seconds
\* the decimal string of s + d * 86400 and timestamp.nanos n.
C2_PipelineAddsDays ==
    (Returned("handleAddDays")
        /\ ~IsThrow(parseInputToEpoch(arg.date)) /\ ~IsThrow(parseDays(arg.days)))
    => /\ res.t = "result"
       /\ res.timestamp.seconds =
              BigToString(BigAdd(parseInputToEpoch(arg.date).seconds,
                                 BigMul(parseDays(arg.days).v, BigOf(86400))))
       /\ res.timestamp.nanos = parseInputToEpoch(arg.date).nanos

\* the value is a complete result of the pipeline
CompleteResult(r) ==
    /\ r.t = "result"
    /\ DOMAIN r = {"t", "date_ymd", "date_iso", "timestamp"}
    /\ DOMAIN r.timestamp = {"seconds", "nanos"}

\* the value is one error and nothing else
OneError(r) == r.t = "throw" /\ DOMAIN r = {"t", "msg"}

\* C3: handleAddDays returns a complete result or reports one error and no
\* result fields, and a date input that follows no accepted encoding always
\* gives an error.
C3_AllOrError ==
    Returned("handleAddDays") =>
        /\ CompleteResult(res) \/ OneError(res)
        /\ arg.date \in UnsupportedDates => OneError(res)

\* the text matches ^-?\d+$
IntegerText(s) ==
    LET body == IF Len(s) > 0 /\ SubSeq(s, 1, 1) = "-" THEN SubSeq(s, 2, Len(s)) ELSE s
    IN  Len(body) > 0 /\ \A i \in 1..Len(body) : SubSeq(body, i, i) \in Digits

\* the value is a native integer number or a string matching ^-?\d+$
IntegerForm(v) ==
    \/ (v.t = "number" /\ v.k = "int")
    \/ (v.t = "string" /\ IntegerText(v.s))

\* C4: parseDays accepts a value if and only if it is a native integer
\* number or a string matching ^-?\d+$, and returns that integer; every
\* other value fails with 'days must be an integer'.
C4_ParseDays ==
    Returned("parseDays") =>
        /\ IntegerForm(arg) <=> res.t = "bigint"
        /\ ~IntegerForm(arg) <=> res = Throw("days must be an integer")
        /\ IntegerForm(arg) <=> arg \in IntegerDays
        /\ \A text \in DaysTexts : arg \in DaysForms(text) => res = BigV(Dec(text))

\* parseDays("-0010") has returned -10
C4_Witness ==
    /\ Returned("parseDays")
    /\ arg = Str("-0010")
    /\ res = BigV(BigOf(-10))

\* C5: for every date input {seconds, nanos} with seconds an integer of any
\* magnitude and every integer days, handleAddDays returns a result whose
\* timestamp.seconds is the decimal value of seconds + days * 86400.
C5_AnyMagnitude ==
    Returned("handleAddDays") =>
        \A t \in SecondsTexts, k \in DaysTexts :
            (arg.date \in StructuredOf(t) /\ arg.days \in DaysForms(k))
            => /\ res.t = "result"
               /\ res.timestamp.seconds =
                      BigToString(BigAdd(Dec(t), BigMul(Dec(k), BigOf(86400))))

\* the text is YYYY-MM-DD
IsYmd(txt) ==
    /\ Len(txt) = 10
    /\ \A i \in {1, 2, 3, 4, 6, 7, 9, 10} : SubSeq(txt, i, i) \in Digits
    /\ \A i \in {5, 8} : SubSeq(txt, i, i) = "-"

\* the text is YYYY-MM-DDTHH:MM:SSZ
IsIsoSeconds(txt) ==
    /\ Len(txt) = 20
    /\ IsYmd(SubSeq(txt, 1, 10))
    /\ SubSeq(txt, 11, 11) = "T"
    /\ \A i \in {12, 13, 15, 16, 18, 19} : SubSeq(txt, i, i) \in Digits
    /\ \A i \in {14, 17} : SubSeq(txt, i, i) = ":"
    /\ SubSeq(txt, 20, 20) = "Z"

\* C6: for every Instant given to epochToOutputs, date_ymd is the 10-character
\* YYYY-MM-DD UTC date of the instant, date_iso the 20-character
\* YYYY-MM-DDTHH:MM:SSZ text of exactly the whole epoch second
\* timestamp.seconds, and timestamp.nanos the instant's nanos.
C6_Render ==
    Returned("epochToOutputs") =>
        /\ res.t = "result"
        /\ IsYmd(res.date_ymd)
        /\ DateParse(res.date_ymd)
              = Num(BigMul(BigFloorDiv(arg.seconds, BigOf(86400)), MsPerDay))
        /\ IsIsoSeconds(res.date_iso)
        /\ DateParse(res.date_iso) = Num(BigMul(arg.seconds, BigOf(1000)))
        /\ res.timestamp.seconds = BigToString(arg.seconds)
        /\ res.timestamp.nanos = arg.nanos
        /\ res.timestamp.nanos \in 0..999999999

\* C7: normalization is idempotent: normalizeNanos applied to the seconds and
\* nanos normalizeNanos(s, n) returned gives normalizeNanos(s, n) again.
C7_Idempotent ==
    Returned("renormalize") => res = arg.first

\* normalize(0, 2500000000) has been normalized again, giving {2, 500000000}
C7_Witness ==
    /\ Returned("renormalize")
    /\ arg.input = [seconds |-> BigOf(0), nanos |-> Dec("2500000000")]
    /\ res = Instant(BigOf(2), 500000000)

\* the Instant a run of day additions ends with, or the error it failed with
Outcome(r) == IF r.t = "result" THEN InstantOf(r) ELSE r

\* C8: adding a days and then b days to an Instant gives the same Instant,
\* seconds and nanos, as adding a + b days in one step.
C8_Additive ==
    (Returned("addDays") /\ chain.steps >= 2)
    => /\ res.t = "result"
       /\ Outcome(res) = Outcome(handleAddDays(chain.start, Str(BigToString(chain.total))))

\* epoch seconds of the years 0000 to 9999
FourDigitYear(seconds) ==
    BigGe(seconds, Dec("-62167219200")) /\ ~BigLt(Dec("253402300799"), seconds)

\* C9, as the code has it: for an Instant with nanos in range in the years
\* 0000 to 9999 (epoch seconds -62167219200 to 253402300799),
\* parseInputToEpoch of the date_iso rendered for it returns the Instant's
\* seconds with nanos 0; it is the same Instant exactly when nanos is 0.
C9_RoundTripSeconds ==
    (Returned("roundTrip") /\ FourDigitYear(arg.instant.seconds))
    => /\ res = Instant(arg.instant.seconds, 0)
       /\ res = arg.instant <=> arg.instant.nanos = 0

\* {1608826790, 999000000} has been rendered and read back as {1608826790, 0}
C9_Witness ==
    /\ Returned("roundTrip")
    /\ arg.instant = Instant(Dec("1608826790"), 999000000)
    /\ arg.text = "2020-12-24T16:19:50Z"
    /\ res = Instant(Dec("1608826790"), 0)

\* C9, as stated: for an Instant with nanos in range and a multiple of
\* 1,000,000, parseInputToEpoch of the date_iso rendered for it returns the
\* same Instant.
C9_RoundTripAsStated ==
    (Returned("roundTrip") /\ arg.instant.nanos % 1000000 = 0)
    => res = arg.instant

(***************************************************************************)
(* The tokens of a list text, told from the roles of its characters: a     *)
(* character is a quote that opens or closes a span, a comma outside every *)
(* span (a split), the backslash of an escape inside a span, or content.   *)
(* q is the quote character of the span position i lies in, "" outside.    *)
(***************************************************************************)
RECURSIVE Roles(_, _, _)
Roles(raw, i, q) ==
    IF i > Len(raw) THEN <<>>
    ELSE LET c == SubSeq(raw, i, i)
         IN  IF q = ""
             THEN IF c \in {"\"", "'"} THEN <<"quote">> \o Roles(raw, i + 1, c)
                  ELSE IF c = "," THEN <<"split">> \o Roles(raw, i + 1, "")
                  ELSE <<"content">> \o Roles(raw, i + 1, "")
             ELSE IF c = q THEN <<"quote">> \o Roles(raw, i + 1, "")
                  ELSE IF c = "\\" /\ i < Len(raw)
                  THEN <<"escape", "content">> \o Roles(raw, i + 2, q)
                  ELSE <<"content">> \o Roles(raw, i + 1, q)

\* the content characters of raw at the positions lo..hi
RECURSIVE ContentOf(_, _, _, _)
ContentOf(raw, roles, lo, hi) ==
    IF lo > hi THEN ""
    ELSE (IF roles[lo] = "content" THEN SubSeq(raw, lo, lo) ELSE "")
         \o ContentOf(raw, roles, lo + 1, hi)

\* the positions of the splits, in order, closed by the position after raw
SplitEnds(roles) ==
    LET n == Len(roles)
        F[i \in 1..(n + 1)] ==
            IF i = n + 1 THEN <<n + 1>>
            ELSE (IF roles[i] = "split" THEN <<i>> ELSE <<>>) \o F[i + 1]
    IN  F[1]

\* the tokens between the splits, trimmed, the empty ones left out
ExpectedTokens(raw) ==
    LET roles == Roles(raw, 1, "")
        ends  == SplitEnds(roles)
        token(j) == Trim(ContentOf(raw, roles, (IF j = 1 THEN 1 ELSE ends[j - 1] + 1),
                                   ends[j] - 1))
    IN  SelectSeq([j \in 1..Len(ends) |-> token(j)], LAMBDA tok : tok # "")

\* C10: in parseStringList on a string a comma ends the current token if and
\* only if it lies outside every quoted span: commas inside a span are token
\* content, the quotes that open or close a span are never copied, and after
\* an opening quote with no matching close no later comma splits; the text
\* "id1", "id2", 'id 3' gives [id1, id2, id 3].
C10_CommaSplitsOutsideQuotes ==
    (Returned("parseStringList") /\ arg.t = "string")
    => /\ res.scanned = ExpectedTokens(Trim(arg.s))
       /\ arg.s = IdsText => res.items = <<"id1", "id2", "id 3">>

\* x,"y,z has been scanned: the comma after the unclosed quote did not split
C10_Witness ==
    /\ Returned("parseStringList")
    /\ arg = Str("x,\"y,z")
    /\ res.scanned = <<"x", "y,z">>

\* the text holds a backslash
HasBackslash(text) == \E i \in 1..Len(text) : SubSeq(text, i, i) = "\\"

\* C11: in parseStringList a backslash inside a quoted span followed by a
\* character copies that character into the token, drops the backslash and
\* keeps the character from closing the span or splitting; outside a span a
\* backslash is content.  So the tokens returned for a text with backslashes
\* are the contents between the splits with every escape replaced by its
\* escaped character, trimmed, and "a\"b",c gives exactly a"b and c.
C11_EscapeCopiesNextCharacter ==
    (Returned("parseStringList") /\ arg.t = "string" /\ HasBackslash(arg.s))
    => /\ res.items = ExpectedTokens(Trim(arg.s))
       /\ arg.s = "\"a\\\"b\",c" => res.items = <<"a\"b", "c">>

\* the entry is not empty and has no white space at either end
CleanEntry(e) ==
    /\ e # ""
    /\ SubSeq(e, 1, 1) \notin WhiteSpace
    /\ SubSeq(e, Len(e), Len(e)) \notin WhiteSpace

\* the entries of a sequence of strings that are not empty, in their order
\* and as many times as they occur
Kept(entries) == SelectSeq(entries, LAMBDA e : e # "")

\* C12: every entry of the list parseStringList returns, for a string or an
\* array, is a non-empty string without white space at either end; the
\* entries are in the order of their tokens in the source (the tokens of the
\* scan for a string, the elements for an array), equal tokens are all
\* kept and empty ones are dropped: "a",, "b" gives [a, b].
C12_TokenList ==
    Returned("parseStringList")
    => /\ \A i \in 1..Len(res.items) : CleanEntry(res.items[i])
       /\ arg.t = "string"
            => res.items = Kept([j \in 1..Len(res.scanned) |-> Unwrap(res.scanned[j])])
       /\ arg.t = "array"
            => res.items = Kept([j \in 1..Len(arg.items) |-> Trim(ToStr(arg.items[j]))])
       /\ arg = Str("\"a\",, \"b\"") => res.items = <<"a", "b">>
       /\ arg = Str("a,b,a") => res.items = <<"a", "b", "a">>

\* "a",, "b" has been parsed: the empty middle entry is not in the list
C12_Witness ==
    /\ Returned("parseStringList")
    /\ arg = Str("\"a\",, \"b\"")
    /\ res.items = <<"a", "b">>

\* the text, trimmed, begins with "{" and decodes as a JSON object with a
\* seconds field that converts to a BigInt and a nanos that is not finite
NonFiniteNanosText(text) ==
    /\ StartsWith(Trim(text), "{")
    /\ LET asObj == JsonParse(Trim(text))
       IN  /\ ~IsThrow(asObj)
           /\ asObj.t = "object"
           /\ HasProp(asObj, "seconds")
           /\ ~IsThrow(ToBigInt(Prop(asObj, "seconds")))
           /\ ~IsFinite(ToNumber(Coalesce(Prop(asObj, "nanos"), Num(BigZero))))

\* C13: a date string that, trimmed, begins with "{" and decodes as a JSON
\* object with a seconds field whose nanos is not a finite number makes
\* parseInputToEpoch fail with the error "timestamp.nanos must be finite",
\* the error of the object path, and with no other message.
C13_NanosMustBeFinite ==
    (Returned("parseInputToEpoch") /\ arg.t = "string" /\ NonFiniteNanosText(arg.s))
    => res = Throw(NanosError)

\* the call took the ISO 8601 path and Date.parse read the text as a date
OnIsoPath(text) ==
    /\ \/ ~StartsWith(Trim(text), "{")
       \/ IsThrow(TryObject(JsonParse(Trim(text))))
    /\ DateParse(Trim(text)) # NaN

\* C14: on the ISO path, for the epoch milliseconds ms Date.parse produced,
\* negative ones included, the Instant returned has seconds = floor(ms / 1000)
\* and nanos = (ms mod 1000) * 1,000,000 with ms mod 1000 in 0..999, that is
\* seconds * 1000 + nanos / 1,000,000 = ms.
C14_FloorSeconds ==
    (Returned("parseInputToEpoch") /\ arg.t = "string" /\ OnIsoPath(arg.s))
    => /\ ~IsThrow(res)
       /\ res.nanos % 1000000 = 0
       /\ res.nanos \div 1000000 \in 0..999
       /\ BigAdd(BigMul(res.seconds, BigOf(1000)), BigOf(res.nanos \div 1000000))
            = DateParse(Trim(arg.s)).v

\* half a second before the epoch has been parsed: ms = -500 gives second -1
\* and 500,000,000 nanoseconds
C14_Witness ==
    /\ Returned("parseInputToEpoch")
    /\ arg = Str("1969-12-31T23:59:59.500Z")
    /\ res = Instant(BigOf(-1), 500000000)

\* the token is wrapped in a matching pair of quote characters: the same
\* quote character first and last, at two distinct positions
Wrapped(tok) ==
    /\ Len(tok) >= 2
    /\ SubSeq(tok, 1, 1) \in {"\"", "'"}
    /\ SubSeq(tok, Len(tok), Len(tok)) = SubSeq(tok, 1, 1)

\* the token after a pass that removes one wrapping pair and trims again,
\* and leaves every other token as it is
PairRemoved(tok) ==
    IF Wrapped(tok) THEN Trim(SubSeq(tok, 2, Len(tok) - 1)) ELSE tok

\* C15: the pass of parseStringList after the scan alters a token only when
\* the token is wrapped in a matching pair of quote characters (first and
\* last, two distinct positions): it removes that pair and trims again;
\* every other token of the scan, a token that is one quote character
\* included, is returned unchanged.
C15_PostScanFrame ==
    (Returned("parseStringList") /\ arg.t = "string")
    => res.items = Kept([j \in 1..Len(res.scanned) |-> PairRemoved(res.scanned[j])])

====
